---- MODULE Spec2Model ----
(***************************************************************************)
(* obsah: a command line wrapper around Ansible playbooks.                 *)
(*                                                                         *)
(* The model follows src/obsah/__init__.py (parser construction, custom    *)
(* argparse actions, reset_args, main) and src/obsah/constraints.py        *)
(* (validate_constraints).                                                 *)
(*                                                                         *)
(* Conventions                                                             *)
(*  - an argparse.Namespace / a dict is a function from attribute names    *)
(*    (strings) to values; `name in args` is `name \in DOMAIN args`;       *)
(*  - a str is a TLA+ string, a list is a sequence;                        *)
(*  - Python None is the string "None" for str-valued attributes; for the  *)
(*    `verbose` counter None is 0 and for the `obsah_reset` list None is   *)
(*    <<>> (the code only ever tests these two for truthiness);            *)
(*  - the persisted-record file is a sequence of serialised units, each    *)
(*    with its byte width, so that a write at offset 0 over older content  *)
(*    is computed as the file system computes it.                          *)
(***************************************************************************)
EXTENDS Integers, Sequences, FiniteSets, TLC

VARIABLES
    file,        \* the persisted-record file: NoFile or a sequence of units
    inventory,   \* whether the inventory file exists (os.path.exists)
    pc,          \* per invocation: position in main()
    task,        \* per invocation: the playbook selected on the command line
    cfg,         \* per invocation: the ApplicationConfig switches
    cli,         \* per invocation: the command line that was parsed
    args,        \* per invocation: the argparse.Namespace
    persisted,   \* per invocation: persist_params as reset_args loaded it
    pending,     \* per invocation: the dict being written by the with-block
    ansible,     \* per invocation: the argument list handed to PlaybookCLI
    exit_code,   \* per invocation: the status passed to parser.exit / sys.exit
    stderr,      \* per invocation: the message passed to parser.exit
    last_writer, \* history: the invocation whose write reached the file last
    vc_pc,       \* validate_constraints driver: "input" or "done"
    vc_metadata, \* validate_constraints driver: the metadata argument
    vc_args,     \* validate_constraints driver: the args argument
    vc_errors,   \* validate_constraints driver: the returned list
    ac_pc,       \* argparse sessions: "ready" between sessions, "parsing" within one
    ac_kind,     \* argparse sessions: the action of the flag, append_unique or remove
    ac_original, \* history: the list passed as default= when the flag was added
    ac_default,  \* argparse sessions: the content of the parser's default list object
    ac_items,    \* argparse sessions: the namespace attribute, a reference or an own list
    ac_given,    \* argparse sessions: the values the flag was given in this session
    ac_sessions  \* argparse sessions: how many sessions have started

mainVars == <<file, inventory, pc, task, cfg, cli, args, persisted, pending, ansible,
              exit_code, stderr, last_writer>>
vcVars == <<vc_pc, vc_metadata, vc_args, vc_errors>>
acVars == <<ac_pc, ac_kind, ac_original, ac_default, ac_items, ac_given, ac_sessions>>
vars == <<mainVars, vcVars, acVars>>

----------------------------------------------------------------------------
(* Bounds of the model *)

\* longest list of entries drawn for one constraint kind
MaxEntries == 2

\* longest default list a flag is added with
MaxDefault == 3

\* most values a flag is given in one parsing session
MaxValues == 3

\* most parsing sessions that share one parser
MaxSessions == 2

----------------------------------------------------------------------------
(* Namespaces and dicts *)

Empty == <<>>

Has(ns, k) == k \in DOMAIN ns

\* setattr(ns, k, v) / d[k] = v
Set(ns, k, v) == [x \in (DOMAIN ns) \cup {k} |-> IF x = k THEN v ELSE ns[x]]

\* delattr(ns, k) / d.pop(k, None)
Del(ns, k) == [x \in (DOMAIN ns) \ {k} |-> ns[x]]

\* d1 overlaid by d2
Merge(d1, d2) ==
    [x \in (DOMAIN d1) \cup (DOMAIN d2) |-> IF x \in DOMAIN d2 THEN d2[x] ELSE d1[x]]

Restrict(d, S) == [x \in (DOMAIN d) \cap S |-> d[x]]

None == "None"

----------------------------------------------------------------------------
(* Text: str.join, repr of a list of str, the f-strings *)

RECURSIVE Join(_, _)
\* sep.join(items)
Join(items, sep) ==
    IF items = <<>> THEN ""
    ELSE IF Len(items) = 1 THEN items[1]
    ELSE items[1] \o sep \o Join(Tail(items), sep)

Quote(s) == "'" \o s \o "'"

\* the text an f-string gives for a list of str: ['a', 'b']
ListRepr(items) == "[" \o Join([i \in DOMAIN items |-> Quote(items[i])], ", ") \o "]"

----------------------------------------------------------------------------
(* Custom argparse actions *)

\* x in items
In(x, items) == \E i \in 1..Len(items) : items[i] = x

\* __call__ of action='append': the value is appended whether or not it is
\* in the list
AppendAction(namespace, dest, values) ==
    LET items == IF Has(namespace, dest) THEN namespace[dest] ELSE <<>>
    IN  Set(namespace, dest, Append(items, values))

\* AppendUniqueAction.__call__(parser, namespace, values): the namespace after
\* the call; a missing attribute reads as None and becomes []
AppendUniqueAction(namespace, dest, values) ==
    LET items == IF Has(namespace, dest) THEN namespace[dest] ELSE <<>>
    IN  Set(namespace, dest, IF In(values, items) THEN items ELSE Append(items, values))

RECURSIVE ListRemove(_, _)
\* items.remove(x) for an x in items: the first occurrence is deleted
ListRemove(items, x) ==
    IF Head(items) = x THEN Tail(items) ELSE <<Head(items)>> \o ListRemove(Tail(items), x)

\* a remove that deletes every occurrence of the value
RemoveEveryAction(namespace, dest, values) ==
    IF ~Has(namespace, dest) THEN Set(namespace, dest, <<>>)
    ELSE Set(namespace, dest, SelectSeq(namespace[dest], LAMBDA item : item # values))

\* RemoveAction.__call__(parser, namespace, values): the namespace after the
\* call; a missing attribute reads as None and becomes []
RemoveAction(namespace, dest, values) ==
    IF ~Has(namespace, dest) THEN Set(namespace, dest, <<>>)
    ELSE LET items == namespace[dest]
         IN  Set(namespace, dest, IF In(values, items) THEN ListRemove(items, values) ELSE items)

----------------------------------------------------------------------------
(* Playbooks and their metadata *)

\* the namedtuple Variable (help_text, type and choices do not reach the
\* logic modelled here)
Variable(name, parameter, action, dest) ==
    [name |-> name, parameter |-> parameter, action |-> action, dest |-> dest]

NoConstraints ==
    [required_together |-> <<>>, required_one_of |-> <<>>, required_if |-> <<>>,
     forbidden_if |-> <<>>, mutually_exclusive |-> <<>>]

\* playbooks/deploy: takes a target; changing --trigger invalidates --dependent
Deploy ==
    [name |-> "deploy",
     takes_target_parameter |-> TRUE,
     variables |-> << Variable("dependent", "--dependent", "store", None),
                     Variable("enable_feature", "--enable-feature", "append_unique", "features"),
                     Variable("trigger", "--trigger", "store", None) >>,
     constraints |-> [NoConstraints EXCEPT
                        !.required_if = << <<"trigger", "A", <<"dependent">> >> >>],
     reset |-> << <<"trigger", <<"dependent">> >> >>]

\* playbooks/chain: no target; two reset rules, the second triggered by the
\* first one's dependent
Chain ==
    [name |-> "chain",
     takes_target_parameter |-> FALSE,
     variables |-> << Variable("dependent", "--dependent", "store", None),
                     Variable("trigger", "--trigger", "store", None) >>,
     constraints |-> [NoConstraints EXCEPT
                        !.required_one_of = << <<"trigger", "dependent">> >>],
     reset |-> << <<"trigger", <<"dependent">> >>, <<"dependent", <<"features">> >> >>]

\* playbooks/setup: no target, no flags, one positional variable
Setup ==
    [name |-> "setup",
     takes_target_parameter |-> FALSE,
     variables |-> << Variable("tag", "tag", "store", None) >>,
     constraints |-> [NoConstraints EXCEPT
                        !.mutually_exclusive = << <<"dependent", "features">> >>],
     reset |-> <<>>]

\* ApplicationConfig.playbooks(): sorted by name
Playbooks == <<Chain, Deploy, Setup>>

PlaybookNames == {Playbooks[i].name : i \in 1..Len(Playbooks)}

PlaybookNamed(n) == Playbooks[CHOOSE i \in 1..Len(Playbooks) : Playbooks[i].name = n]

\* the values the flags of the playbooks accept on the command line
FlagValues(name) ==
    CASE name = "trigger" -> {"A", "B"}
      [] name = "dependent" -> {"x", "z"}
      [] name = "enable_feature" -> {"f1"}
      [] name = "tag" -> {"tag1"}

\* the target names find_targets returns for an existing inventory
InventoryTargets == <<"testpackage">>

----------------------------------------------------------------------------
(* The persisted-record file: yaml.safe_dump / yaml.safe_load *)

NoFile == "NoFile"

\* every attribute name of the model, in the order safe_dump sorts keys
KeyOrder ==
    << "action", "ask_pass", "dependent", "extra_vars", "features", "obsah_reset",
       "obsah_state_path", "playbook", "private_key_file", "tag", "target",
       "trigger", "verbose" >>

\* the attributes whose value is a list of str
ListKeys == {"extra_vars", "features", "obsah_reset", "target"}

\* the block-style text of one mapping entry
EntryText(k, v) ==
    IF k \in ListKeys
    THEN IF v = <<>> THEN k \o ": []\n"
         ELSE k \o ":\n" \o Join([i \in DOMAIN v |-> "- " \o v[i] \o "\n"], "")
    ELSE k \o ": " \o v \o "\n"

\* a unit of the file: one mapping entry and the number of bytes it takes
Unit(k, v) == [k |-> k, v |-> v, w |-> Len(EntryText(k, v))]

\* what is left of a unit whose first bytes were overwritten
Torn(w) == [k |-> "<torn>", v |-> "", w |-> w]

\* the text of an empty mapping: {}
EmptyMapping == [k |-> "{}", v |-> "", w |-> 3]

\* yaml.safe_dump(d, stream): keys sorted, one entry after the other
SafeDump(d) ==
    IF DOMAIN d = {} THEN <<EmptyMapping>>
    ELSE LET keys == SelectSeq(KeyOrder, LAMBDA k : k \in DOMAIN d)
         IN  [i \in 1..Len(keys) |-> Unit(keys[i], d[keys[i]])]

IsTorn(content) == \E i \in 1..Len(content) : content[i].k = "<torn>"

RECURSIVE LoadUnits(_, _)
LoadUnits(content, d) ==
    IF content = <<>> THEN d
    ELSE LET u == Head(content)
         IN  LoadUnits(Tail(content), IF u.k = "{}" THEN d ELSE Set(d, u.k, u.v))

\* open(persist_path) and yaml.safe_load(persist_file), as the two callers
\* use it: FileNotFoundError is suppressed and a falsy document (None, {})
\* is skipped, both leaving no persisted parameters; a document that does
\* not parse raises
SafeLoad(f) ==
    IF f = NoFile THEN [error |-> FALSE, params |-> Empty]
    ELSE IF IsTorn(f) THEN [error |-> TRUE, params |-> Empty]
    ELSE [error |-> FALSE, params |-> LoadUnits(f, Empty)]

RECURSIVE Width(_)
Width(content) == IF content = <<>> THEN 0 ELSE Head(content).w + Width(Tail(content))

RECURSIVE After(_, _)
\* what the file holds from byte offset n on
After(content, n) ==
    IF content = <<>> \/ n = 0 THEN content
    ELSE IF n >= Head(content).w THEN After(Tail(content), n - Head(content).w)
    ELSE <<Torn(Head(content).w - n)>> \o Tail(content)

\* open(path, 'w'): O_CREAT | O_TRUNC
OpenTruncate(f) == <<>>

\* the buffered text reaches the file when the with-block closes it: written
\* at this descriptor's offset 0, over whatever the file holds by then
WriteAtStart(f, content) == content \o After(f, Width(content))

----------------------------------------------------------------------------
(* obsah_argument_parser and parse_args *)

\* an ApplicationConfig: persist_params(), allow_inventory_auth(),
\* allow_extra_vars()
Config(persist, auth, extra) ==
    [persist_params |-> persist, allow_inventory_auth |-> auth, allow_extra_vars |-> extra]

\* the parameters of the variables below that start with '--'
DashedParameters ==
    {"--dependent", "--enable-feature", "--trigger", "--mode", "--target-id"}

\* variable.parameter.startswith('--')
IsFlag(variable) == variable.parameter \in DashedParameters

\* variable.dest or variable.name
Dest(variable) == IF variable.dest # None THEN variable.dest ELSE variable.name

FlagVariables(playbook) == SelectSeq(playbook.variables, IsFlag)

AnyTakesTarget == \E i \in 1..Len(Playbooks) : Playbooks[i].takes_target_parameter

\* the names of the variables of all playbooks that are positional
PositionalNames ==
    UNION {{Playbooks[i].variables[j].name :
                j \in {n \in 1..Len(Playbooks[i].variables) : ~IsFlag(Playbooks[i].variables[n])}} :
           i \in 1..Len(Playbooks)}

\* the denylist without line 430, which adds target
ObsahDontPersistWithoutTarget(config) ==
    {"playbook", "verbose", "action"}
    \cup (IF config.allow_inventory_auth THEN {"ask_pass", "private_key_file"} ELSE {})
    \cup (IF config.allow_extra_vars THEN {"extra_vars"} ELSE {})
    \cup (IF config.persist_params THEN PositionalNames ELSE {})
    \cup (IF Len(Playbooks) > 0 THEN {"obsah_reset"} ELSE {})

\* parser.obsah_dont_persist once the parser is built
ObsahDontPersist(config) ==
    {"playbook", "verbose", "action"}
    \cup (IF config.allow_inventory_auth THEN {"ask_pass", "private_key_file"} ELSE {})
    \cup (IF config.allow_extra_vars THEN {"extra_vars"} ELSE {})
    \cup (IF AnyTakesTarget THEN {"target"} ELSE {})
    \cup (IF config.persist_params THEN PositionalNames ELSE {})
    \cup (IF Len(Playbooks) > 0 THEN {"obsah_reset"} ELSE {})

\* the defaults of the subparser's actions: what parse_args puts into the
\* namespace before it reads the command line
ActionDefaults(playbook, config) ==
    LET d1 == Set(Empty, "verbose", 0)
        d2 == IF config.allow_inventory_auth
              THEN Set(Set(d1, "ask_pass", FALSE), "private_key_file", None)
              ELSE d1
        d3 == IF config.allow_extra_vars THEN Set(d2, "extra_vars", <<>>) ELSE d2
    IN  IF config.persist_params /\ FlagVariables(playbook) # <<>>
        THEN Set(d3, "obsah_reset", <<>>)
        ELSE d3

\* set_defaults with only the persisted parameters of the playbook's own
\* variables
ParserDefaultsOwnVariables(playbook, config, persist_params) ==
    LET own == {Dest(playbook.variables[i]) : i \in DOMAIN playbook.variables}
    IN  Set(IF config.persist_params
            THEN Restrict(persist_params, own \cap DOMAIN persist_params) ELSE Empty,
            "playbook", playbook.name)

\* subparser.set_defaults(playbook=playbook) and, with persistence, the
\* persisted parameters: set for every name the action defaults left unset
ParserDefaults(playbook, config, persist_params) ==
    Set(IF config.persist_params THEN persist_params ELSE Empty, "playbook", playbook.name)

\* the attribute an argument is bound to: argument_args['dest'] for a flag,
\* the parameter itself for a positional
ArgumentDest(variable) == IF IsFlag(variable) THEN Dest(variable) ELSE variable.parameter

RECURSIVE ApplyGiven(_, _, _)
\* the declared arguments given on the command line, each through its action
ApplyGiven(variables, given, namespace) ==
    IF variables = <<>> THEN namespace
    ELSE LET variable == Head(variables)
             after == IF ~Has(given, variable.name) THEN namespace
                      ELSE IF variable.action = "append_unique"
                      THEN AppendUniqueAction(namespace, ArgumentDest(variable), given[variable.name])
                      ELSE Set(namespace, ArgumentDest(variable), given[variable.name])
         IN  ApplyGiven(Tail(variables), given, after)

RECURSIVE ApplyResets(_, _)
\* --reset-<flag>: action='append_const', dest='obsah_reset', const=variable.name
ApplyResets(resets, namespace) ==
    IF resets = <<>> THEN namespace
    ELSE ApplyResets(Tail(resets),
                     Set(namespace, "obsah_reset", Append(namespace["obsah_reset"], Head(resets))))

\* parser.parse_args(cliargs) for a command line the parser accepts
ParseArgs(playbook, config, persist_params, cl) ==
    LET seeded == Merge(ParserDefaults(playbook, config, persist_params),
                        ActionDefaults(playbook, config))
        n1 == Set(seeded, "verbose", cl.verbose)
        n2 == IF config.allow_inventory_auth
              THEN Set(Set(n1, "ask_pass", cl.ask_pass), "private_key_file", cl.private_key_file)
              ELSE n1
        n3 == IF config.allow_extra_vars THEN Set(n2, "extra_vars", cl.extra_vars) ELSE n2
        n4 == IF playbook.takes_target_parameter THEN Set(n3, "target", cl.target) ELSE n3
        n5 == ApplyGiven(playbook.variables, cl.given, n4)
        n6 == ApplyResets(cl.resets, n5)
    IN  Set(n6, "action", playbook.name)

\* the parser rejects the command line (exit status 2): the target is
\* missing (nargs='+') or is not one of the choices
UsageError(playbook, targets, cl) ==
    playbook.takes_target_parameter
    /\ (cl.target = <<>> \/ \E i \in 1..Len(cl.target) : ~In(cl.target[i], targets))

----------------------------------------------------------------------------
(* reset_args *)

RECURSIVE ResetValues(_, _, _)
\* for arg in reset_values: ...; getattr on a missing attribute raises
ResetValues(reset_values, persist_params, st) ==
    IF reset_values = <<>> \/ st.raised THEN st
    ELSE LET arg == Head(reset_values)
             next == IF ~Has(persist_params, arg) THEN st
                     ELSE IF ~Has(st.args, arg) THEN [st EXCEPT !.raised = TRUE]
                     ELSE IF persist_params[arg] = st.args[arg]
                     THEN [st EXCEPT !.args = Del(st.args, arg)]
                     ELSE st
         IN  ResetValues(Tail(reset_values), persist_params, next)

\* reset_args with the comparison of line 495 inverted
RuleFiresWhenEqual(reset_key, persist_params, namespace) ==
    IF ~Has(persist_params, reset_key) THEN "no"
    ELSE IF ~Has(namespace, reset_key) THEN "raise"
    ELSE IF persist_params[reset_key] = namespace[reset_key] THEN "yes"
    ELSE "no"

\* the condition under which a rule resets its values; None when getattr raises
RuleFires(reset_key, persist_params, namespace) ==
    IF ~Has(persist_params, reset_key) THEN "no"
    ELSE IF ~Has(namespace, reset_key) THEN "raise"
    ELSE IF persist_params[reset_key] # namespace[reset_key] THEN "yes"
    ELSE "no"

RECURSIVE ResetRules(_, _, _)
\* for (reset_key, reset_values) in metadata['reset']: ...
ResetRules(rules, persist_params, st) ==
    IF rules = <<>> \/ st.raised THEN st
    ELSE LET reset_key == Head(rules)[1]
             reset_values == Head(rules)[2]
             fires == RuleFires(reset_key, persist_params, st.args)
             next == IF fires = "raise" THEN [st EXCEPT !.raised = TRUE]
                     ELSE IF fires = "yes" THEN ResetValues(reset_values, persist_params, st)
                     ELSE st
         IN  ResetRules(Tail(rules), persist_params, next)

RECURSIVE ResetQueue(_, _)
\* for reset_arg in (getattr(args, 'obsah_reset', None) or []): delattr,
\* AttributeError suppressed
ResetQueue(queue, namespace) ==
    IF queue = <<>> THEN namespace
    ELSE ResetQueue(Tail(queue), Del(namespace, Head(queue)))

\* reset_args(application_config, metadata, args), given what the file
\* loaded to: [raised, args]
ResetArgs(persist_params, metadata, namespace) ==
    IF DOMAIN persist_params = {} THEN [raised |-> FALSE, args |-> namespace]
    ELSE LET st == ResetRules(metadata.reset, persist_params,
                              [raised |-> FALSE, args |-> namespace])
             queue == IF Has(st.args, "obsah_reset") THEN st.args["obsah_reset"] ELSE <<>>
         IN  IF st.raised THEN st
             ELSE [raised |-> FALSE, args |-> ResetQueue(queue, st.args)]

----------------------------------------------------------------------------
(* constraints.validate_constraints *)

RECURSIVE LookupParameter(_, _)
LookupParameter(variables, name) ==
    IF variables = <<>> THEN name
    ELSE IF Head(variables).name = name THEN Head(variables).parameter
    ELSE LookupParameter(Tail(variables), name)

\* variable_to_parameter(name), a closure over metadata['variables']
variable_to_parameter(metadata, name) == LookupParameter(metadata.variables, name)

\* [variable_to_parameter(x) for x in names]
Parameters(metadata, names) == [i \in DOMAIN names |-> variable_to_parameter(metadata, names[i])]

\* [arg in args for arg in constraint]
PresentArgs(constraint, namespace) == [i \in DOMAIN constraint |-> Has(namespace, constraint[i])]

AllOf(bools) == \A i \in 1..Len(bools) : bools[i]
AnyOf(bools) == \E i \in 1..Len(bools) : bools[i]

\* required_together without "not all(present_args)"
RequiredTogetherAny(metadata, constraint, namespace) ==
    LET present_args == PresentArgs(constraint, namespace)
    IN  IF AnyOf(present_args)
        THEN << ListRepr(Parameters(metadata, constraint)) \o " are required together" >>
        ELSE <<>>

\* the errors of one required_together entry
RequiredTogether(metadata, constraint, namespace) ==
    LET present_args == PresentArgs(constraint, namespace)
    IN  IF ~AllOf(present_args) /\ AnyOf(present_args)
        THEN << ListRepr(Parameters(metadata, constraint)) \o " are required together" >>
        ELSE <<>>

\* required_one_of with all() in place of any()
RequiredOneOfAll(metadata, constraint, namespace) ==
    LET present_args == PresentArgs(constraint, namespace)
    IN  IF ~AllOf(present_args)
        THEN << "one of " \o ListRepr(Parameters(metadata, constraint)) \o " is required" >>
        ELSE <<>>

\* the errors of one required_one_of entry
RequiredOneOf(metadata, constraint, namespace) ==
    LET present_args == PresentArgs(constraint, namespace)
    IN  IF ~AnyOf(present_args)
        THEN << "one of " \o ListRepr(Parameters(metadata, constraint)) \o " is required" >>
        ELSE <<>>

\* required_if without the comparison with argument_value
RequiredIfPresent(metadata, constraint, namespace) ==
    LET argument_name == constraint[1]
        argument_value == constraint[2]
        required_arguments == constraint[3]
    IN  IF Has(namespace, argument_name)
           /\ ~AllOf(PresentArgs(required_arguments, namespace))
        THEN << ListRepr(Parameters(metadata, required_arguments)) \o " are required because "
                \o variable_to_parameter(metadata, argument_name) \o " is " \o argument_value >>
        ELSE <<>>

\* the errors of one required_if entry
RequiredIf(metadata, constraint, namespace) ==
    LET argument_name == constraint[1]
        argument_value == constraint[2]
        required_arguments == constraint[3]
    IN  IF Has(namespace, argument_name) /\ namespace[argument_name] = argument_value
           /\ ~AllOf(PresentArgs(required_arguments, namespace))
        THEN << ListRepr(Parameters(metadata, required_arguments)) \o " are required because "
                \o variable_to_parameter(metadata, argument_name) \o " is " \o argument_value >>
        ELSE <<>>

\* forbidden_if with all() in place of any()
ForbiddenIfAll(metadata, constraint, namespace) ==
    LET argument_name == constraint[1]
        argument_value == constraint[2]
        forbidden_arguments == constraint[3]
    IN  IF Has(namespace, argument_name) /\ namespace[argument_name] = argument_value
           /\ AllOf(PresentArgs(forbidden_arguments, namespace))
        THEN << ListRepr(Parameters(metadata, forbidden_arguments)) \o " are forbidden because "
                \o variable_to_parameter(metadata, argument_name) \o " is " \o argument_value >>
        ELSE <<>>

\* the errors of one forbidden_if entry
ForbiddenIf(metadata, constraint, namespace) ==
    LET argument_name == constraint[1]
        argument_value == constraint[2]
        forbidden_arguments == constraint[3]
    IN  IF Has(namespace, argument_name) /\ namespace[argument_name] = argument_value
           /\ AnyOf(PresentArgs(forbidden_arguments, namespace))
        THEN << ListRepr(Parameters(metadata, forbidden_arguments)) \o " are forbidden because "
                \o variable_to_parameter(metadata, argument_name) \o " is " \o argument_value >>
        ELSE <<>>

\* mutually_exclusive reporting once per present member
MutuallyExclusivePerMember(metadata, constraint, namespace) ==
    LET present_args == SelectSeq(constraint, LAMBDA arg : Has(namespace, arg))
    IN  IF Len(present_args) > 1
        THEN [i \in DOMAIN present_args |-> ListRepr(constraint) \o " are mutually exclusive"]
        ELSE <<>>

\* the errors of one mutually_exclusive entry
MutuallyExclusive(metadata, constraint, namespace) ==
    LET present_args == SelectSeq(constraint, LAMBDA arg : Has(namespace, arg))
    IN  IF Len(present_args) > 1
        THEN << ListRepr(constraint) \o " are mutually exclusive" >>
        ELSE <<>>

RECURSIVE Extend(_)
\* errors after every errors.append of one for-loop: the lists of messages
\* of its entries, in order
Extend(appended) ==
    IF appended = <<>> THEN <<>> ELSE Head(appended) \o Extend(Tail(appended))

\* validate_constraints returning at the first kind that has a violation
validate_constraints_first_kind(metadata, namespace) ==
    LET constraints == metadata.constraints
        together == Extend([i \in DOMAIN constraints.required_together |->
                        RequiredTogether(metadata, constraints.required_together[i], namespace)])
        one_of == Extend([i \in DOMAIN constraints.required_one_of |->
                        RequiredOneOf(metadata, constraints.required_one_of[i], namespace)])
        required == Extend([i \in DOMAIN constraints.required_if |->
                        RequiredIf(metadata, constraints.required_if[i], namespace)])
        forbidden == Extend([i \in DOMAIN constraints.forbidden_if |->
                        ForbiddenIf(metadata, constraints.forbidden_if[i], namespace)])
        exclusive == Extend([i \in DOMAIN constraints.mutually_exclusive |->
                        MutuallyExclusive(metadata, constraints.mutually_exclusive[i], namespace)])
    IN  IF together # <<>> THEN together
        ELSE IF one_of # <<>> THEN one_of
        ELSE IF required # <<>> THEN required
        ELSE IF forbidden # <<>> THEN forbidden
        ELSE exclusive

\* validate_constraints(metadata, args)
validate_constraints(metadata, namespace) ==
    LET constraints == metadata.constraints
    IN  Extend([i \in DOMAIN constraints.required_together |->
                    RequiredTogether(metadata, constraints.required_together[i], namespace)])
        \o Extend([i \in DOMAIN constraints.required_one_of |->
                    RequiredOneOf(metadata, constraints.required_one_of[i], namespace)])
        \o Extend([i \in DOMAIN constraints.required_if |->
                    RequiredIf(metadata, constraints.required_if[i], namespace)])
        \o Extend([i \in DOMAIN constraints.forbidden_if |->
                    ForbiddenIf(metadata, constraints.forbidden_if[i], namespace)])
        \o Extend([i \in DOMAIN constraints.mutually_exclusive |->
                    MutuallyExclusive(metadata, constraints.mutually_exclusive[i], namespace)])

----------------------------------------------------------------------------
(* generate_ansible_args *)

\* ApplicationConfig.playbooks_path(), state_path(), inventory_path()
PlaybooksPath == "playbooks"
StatePath == "/var/lib/obsah"
InventoryPath == "package_manifest.yaml"

\* Playbook.path
PlaybookPath(name) == PlaybooksPath \o "/" \o name \o "/" \o name \o ".yaml"

DoubleQuote(s) == "\"" \o s \o "\""

\* json.dumps of one value: a str or a list of str
JsonValue(k, v) ==
    IF k \in ListKeys THEN "[" \o Join([i \in DOMAIN v |-> DoubleQuote(v[i])], ", ") \o "]" ELSE DoubleQuote(v)

\* json.dumps(variables, sort_keys=True)
JsonDumps(variables) ==
    LET keys == SelectSeq(KeyOrder, LAMBDA k : k \in DOMAIN variables)
    IN  "{" \o Join([i \in DOMAIN keys |-> DoubleQuote(keys[i]) \o ": " \o JsonValue(keys[i], variables[keys[i]])], ", ")
        \o "}"

\* parser.obsah_arguments: the names of the variables of every playbook
ObsahArguments ==
    UNION {{Playbooks[i].variables[j].name : j \in 1..Len(Playbooks[i].variables)} :
           i \in 1..Len(Playbooks)}

RECURSIVE Repeat(_, _)
\* s * n
Repeat(s, n) == IF n = 0 THEN "" ELSE s \o Repeat(s, n - 1)

RECURSIVE ExtraVars(_)
ExtraVars(extra_vars) ==
    IF extra_vars = <<>> THEN <<>> ELSE <<"-e", Head(extra_vars)>> \o ExtraVars(Tail(extra_vars))

\* generate_ansible_args(inventory_path, args, obsah_arguments)
generate_ansible_args(inventory_path, namespace, obsah_arguments) ==
    LET base == <<PlaybookPath(namespace["playbook"]), "--inventory", inventory_path>>
        limit == IF Has(namespace, "target")
                 THEN <<"--limit", Join(namespace["target"], ":")>> ELSE <<>>
        verbose == IF namespace["verbose"] # 0
                   THEN <<"-" \o Repeat("v", namespace["verbose"])>> ELSE <<>>
        ask_pass == IF Has(namespace, "ask_pass") /\ namespace["ask_pass"] THEN <<"-k">> ELSE <<>>
        private_key == IF Has(namespace, "private_key_file") /\ namespace["private_key_file"] # None
                       THEN <<"--private-key", namespace["private_key_file"]>> ELSE <<>>
        extra == IF Has(namespace, "extra_vars") THEN ExtraVars(namespace["extra_vars"]) ELSE <<>>
        variables == Set(Restrict(namespace, obsah_arguments), "obsah_state_path", StatePath)
        blob == IF DOMAIN variables # {} THEN <<"-e", JsonDumps(variables)>> ELSE <<>>
    IN  base \o limit \o verbose \o ask_pass \o private_key \o extra \o blob

----------------------------------------------------------------------------
(* Invocations of main() *)

Procs == {1, 2}

\* the exit codes PlaybookCLI.run() is taken to return
EngineCodes == {0, 2, 4}

\* the configurations of the model: everything switched on, everything off
Configs == {Config(TRUE, TRUE, TRUE), Config(FALSE, FALSE, FALSE)}

NoConfig == Config(FALSE, FALSE, FALSE)

VariableNames(variables) == {variables[i].name : i \in 1..Len(variables)}

AllFlagValues == {"A", "B", "x", "z", "f1", "tag1"}

\* the declared arguments a command line can give: every positional, any of
\* the flags
GivenChoices(playbook) ==
    LET required == {n \in VariableNames(playbook.variables) : n \in PositionalNames}
    IN  UNION {{g \in [D -> AllFlagValues] : \A n \in D : g[n] \in FlagValues(n)} :
               D \in {D \in SUBSET VariableNames(playbook.variables) : required \subseteq D}}

\* the --reset-<flag> flags a command line can give: the parser has them
\* only with persistence
ResetChoices(playbook, config) ==
    IF config.persist_params
    THEN {<<>>} \cup {<<n>> : n \in VariableNames(FlagVariables(playbook))}
    ELSE {<<>>}

\* the global options a command line can give: none, or all the parser has
OptionChoices(config) ==
    {[verbose |-> 0, ask_pass |-> FALSE, private_key_file |-> None, extra_vars |-> <<>>],
     [verbose |-> 2,
      ask_pass |-> config.allow_inventory_auth,
      private_key_file |-> IF config.allow_inventory_auth THEN "id_rsa" ELSE None,
      extra_vars |-> IF config.allow_extra_vars THEN <<"v1=1", "v2=2">> ELSE <<>>]}

CommandLine(target, options, given, resets) ==
    [target |-> target, verbose |-> options.verbose, ask_pass |-> options.ask_pass,
     private_key_file |-> options.private_key_file, extra_vars |-> options.extra_vars,
     given |-> given, resets |-> resets]

NoCommandLine == CommandLine(<<>>, [verbose |-> 0, ask_pass |-> FALSE,
                                    private_key_file |-> None, extra_vars |-> <<>>], Empty, <<>>)

\* the command lines of the model for one playbook
CommandLines(playbook, config) ==
    {CommandLine(IF playbook.takes_target_parameter THEN InventoryTargets ELSE <<>>, o, g, r) :
        o \in OptionChoices(config), g \in GivenChoices(playbook),
        r \in ResetChoices(playbook, config)}
    \cup (IF playbook.takes_target_parameter
          THEN {CommandLine(<<>>, NoCommandLine, Empty, <<>>)} ELSE {})

\* sys.exit: the process is gone, its status and message remain
Exit(p, status, message) ==
    /\ pc' = [pc EXCEPT ![p] = "exited"]
    /\ exit_code' = [exit_code EXCEPT ![p] = status]
    /\ stderr' = [stderr EXCEPT ![p] = message]
    /\ task' = [task EXCEPT ![p] = None]
    /\ cfg' = [cfg EXCEPT ![p] = NoConfig]
    /\ cli' = [cli EXCEPT ![p] = NoCommandLine]
    /\ args' = [args EXCEPT ![p] = Empty]
    /\ persisted' = [persisted EXCEPT ![p] = Empty]
    /\ pending' = [pending EXCEPT ![p] = Empty]
    /\ ansible' = [ansible EXCEPT ![p] = <<>>]

\* an exception nothing catches: the interpreter prints the traceback and
\* exits with status 1
Raise(p, exception) == Exit(p, 1, "Traceback: " \o exception)

\* ObsahArgumentParser.exit(status, message)
ParserExit(p, status, message) == Exit(p, status, message \o "\n")

\* no invocation has started
Idle ==
    /\ file = NoFile
    /\ pc = [p \in Procs |-> "idle"]
    /\ task = [p \in Procs |-> None]
    /\ cfg = [p \in Procs |-> NoConfig]
    /\ cli = [p \in Procs |-> NoCommandLine]
    /\ args = [p \in Procs |-> Empty]
    /\ persisted = [p \in Procs |-> Empty]
    /\ pending = [p \in Procs |-> Empty]
    /\ ansible = [p \in Procs |-> <<>>]
    /\ exit_code = [p \in Procs |-> 0]
    /\ stderr = [p \in Procs |-> ""]
    /\ last_writer = 0

\* no parser with a list-valued flag of its own is in use
NoSessions ==
    /\ ac_pc = "off"
    /\ ac_kind = None
    /\ ac_original = [suppress |-> TRUE, list |-> <<>>]
    /\ ac_default = <<>>
    /\ ac_items = [ref |-> "none", list |-> <<>>]
    /\ ac_given = <<>>
    /\ ac_sessions = 0

\* validate_constraints is not called on its own
NoCall ==
    /\ vc_pc = "off"
    /\ vc_metadata = [constraints |-> NoConstraints, variables |-> <<>>]
    /\ vc_args = Empty
    /\ vc_errors = <<>>

Init ==
    /\ Idle
    /\ inventory \in BOOLEAN
    /\ NoCall
    /\ NoSessions

\* main, lines 521-527: find_targets, obsah_argument_parser (which loads the
\* persisted parameters into the subparser's defaults), parser.parse_args
Parse(p, config, name, cl) ==
    LET playbook == PlaybookNamed(name)
        targets == IF inventory THEN InventoryTargets ELSE <<>>
        loaded == IF config.persist_params THEN SafeLoad(file)
                  ELSE [error |-> FALSE, params |-> Empty]
    IN  /\ pc[p] = "idle"
        /\ IF loaded.error THEN Raise(p, "yaml.YAMLError")
           ELSE IF UsageError(playbook, targets, cl) THEN ParserExit(p, 2, "usage")
           ELSE /\ pc' = [pc EXCEPT ![p] = "reset"]
                /\ task' = [task EXCEPT ![p] = name]
                /\ cfg' = [cfg EXCEPT ![p] = config]
                /\ cli' = [cli EXCEPT ![p] = cl]
                /\ args' = [args EXCEPT ![p] = ParseArgs(playbook, config, loaded.params, cl)]
                /\ persisted' = [persisted EXCEPT ![p] = Empty]
                /\ pending' = [pending EXCEPT ![p] = Empty]
                /\ ansible' = [ansible EXCEPT ![p] = <<>>]
                /\ exit_code' = [exit_code EXCEPT ![p] = 0]
                /\ stderr' = [stderr EXCEPT ![p] = ""]
        /\ UNCHANGED <<file, inventory, last_writer, vcVars, acVars>>

\* main, lines 529-530: reset_args, which loads the file again
Reset(p) ==
    /\ pc[p] = "reset"
    /\ IF ~cfg[p].persist_params
       THEN /\ pc' = [pc EXCEPT ![p] = "validate"]
            /\ UNCHANGED <<task, cfg, cli, args, persisted, pending, ansible, exit_code, stderr>>
       ELSE LET loaded == SafeLoad(file)
                result == ResetArgs(loaded.params, PlaybookNamed(task[p]), args[p])
            IN  IF loaded.error THEN Raise(p, "yaml.YAMLError")
                ELSE IF result.raised THEN Raise(p, "AttributeError")
                ELSE /\ pc' = [pc EXCEPT ![p] = "validate"]
                     /\ args' = [args EXCEPT ![p] = result.args]
                     /\ persisted' = [persisted EXCEPT ![p] = loaded.params]
                     /\ UNCHANGED <<task, cfg, cli, pending, ansible, exit_code, stderr>>
    /\ UNCHANGED <<file, inventory, last_writer, vcVars, acVars>>

\* main without lines 532-533: the errors are not looked at
ValidateUnchecked(p) ==
    LET playbook == PlaybookNamed(task[p])
    IN  /\ pc[p] = "validate"
        /\ IF playbook.takes_target_parameter /\ ~inventory
           THEN ParserExit(p, 1, "Could not find your inventory at " \o InventoryPath)
           ELSE /\ pc' = [pc EXCEPT ![p] = IF cfg[p].persist_params THEN "open" ELSE "run"]
                /\ UNCHANGED <<task, cfg, cli, args, persisted, pending, ansible, exit_code, stderr>>
        /\ UNCHANGED <<file, inventory, last_writer, vcVars, acVars>>

\* main, lines 532-536: validate_constraints and the inventory check
Validate(p) ==
    LET playbook == PlaybookNamed(task[p])
        errors == validate_constraints(playbook, args[p])
    IN  /\ pc[p] = "validate"
        /\ IF errors # <<>> THEN ParserExit(p, 1, Join(errors, "\n"))
           ELSE IF playbook.takes_target_parameter /\ ~inventory
           THEN ParserExit(p, 1, "Could not find your inventory at " \o InventoryPath)
           ELSE /\ pc' = [pc EXCEPT ![p] = IF cfg[p].persist_params THEN "open" ELSE "run"]
                /\ UNCHANGED <<task, cfg, cli, args, persisted, pending, ansible, exit_code, stderr>>
        /\ UNCHANGED <<file, inventory, last_writer, vcVars, acVars>>

\* main, lines 539-545: open(persist_path, 'w') truncates the file; the
\* dict to persist is vars(args) without the names in obsah_dont_persist
OpenPersistFile(p) ==
    /\ pc[p] = "open"
    /\ file' = OpenTruncate(file)
    /\ pending' = [pending EXCEPT ![p] =
                      Restrict(args[p], (DOMAIN args[p]) \ ObsahDontPersist(cfg[p]))]
    /\ pc' = [pc EXCEPT ![p] = "dump"]
    /\ UNCHANGED <<inventory, task, cfg, cli, args, persisted, ansible, exit_code, stderr,
                   last_writer, vcVars, acVars>>

\* main, line 546 and the end of the with-block: the dumped text is written
DumpPersistFile(p) ==
    /\ pc[p] = "dump"
    /\ file' = WriteAtStart(file, SafeDump(pending[p]))
    /\ last_writer' = p
    /\ pc' = [pc EXCEPT ![p] = "run"]
    /\ UNCHANGED <<inventory, task, cfg, cli, args, persisted, pending, ansible, exit_code,
                   stderr, vcVars, acVars>>

\* main, lines 550-557: the argument list is generated and handed to PlaybookCLI
StartPlaybook(p) ==
    /\ pc[p] = "run"
    /\ ansible' = [ansible EXCEPT ![p] =
                      <<"ansible-playbook">> \o
                      generate_ansible_args(InventoryPath, args[p], ObsahArguments)]
    /\ pc' = [pc EXCEPT ![p] = "engine"]
    /\ UNCHANGED <<file, inventory, task, cfg, cli, args, persisted, pending, exit_code, stderr,
                   last_writer, vcVars, acVars>>

\* main, lines 558-559: exit_code = cli.run(); parser.exit(exit_code)
PlaybookExit(p, code) ==
    /\ pc[p] = "engine"
    /\ Exit(p, code, "")
    /\ UNCHANGED <<file, inventory, last_writer, vcVars, acVars>>

\* the caller has collected the exit status; the next invocation can start
Collect(p) ==
    /\ pc[p] = "exited"
    /\ pc' = [pc EXCEPT ![p] = "idle"]
    /\ exit_code' = [exit_code EXCEPT ![p] = 0]
    /\ stderr' = [stderr EXCEPT ![p] = ""]
    /\ UNCHANGED <<file, inventory, task, cfg, cli, args, persisted, pending, ansible,
                   last_writer, vcVars, acVars>>

\* the inventory file is created or removed by the user
InventoryChange ==
    /\ inventory' = ~inventory
    /\ UNCHANGED <<file, pc, task, cfg, cli, args, persisted, pending, ansible, exit_code,
                   stderr, last_writer, vcVars, acVars>>

\* one invocation at a time
Next ==
    \/ \E config \in Configs, name \in PlaybookNames :
          \E cl \in CommandLines(PlaybookNamed(name), config) : Parse(1, config, name, cl)
    \/ Reset(1)
    \/ Validate(1)
    \/ OpenPersistFile(1)
    \/ DumpPersistFile(1)
    \/ StartPlaybook(1)
    \/ \E code \in EngineCodes : PlaybookExit(1, code)
    \/ Collect(1)
    \/ InventoryChange

Spec == Init /\ [][Next]_vars

----------------------------------------------------------------------------
(* Two invocations, each started once, that may overlap *)

\* the command lines the overlapping invocations are given: playbook chain
\* with persistence, any of its flags, no global option, no reset flag
ConcurrentCommandLines ==
    {CommandLine(<<>>, NoCommandLine, g, <<>>) : g \in GivenChoices(Chain)}

NextConcurrent ==
    \E p \in Procs :
       \/ \E cl \in ConcurrentCommandLines : Parse(p, Config(TRUE, TRUE, TRUE), "chain", cl)
       \/ Reset(p)
       \/ Validate(p)
       \/ OpenPersistFile(p)
       \/ DumpPersistFile(p)
       \/ StartPlaybook(p)
       \/ \E code \in EngineCodes : PlaybookExit(p, code)

SpecConcurrent == Init /\ [][NextConcurrent]_vars

----------------------------------------------------------------------------
(* validate_constraints called on its own, on drawn metadata and arguments *)

\* metadata['variables'] of the drawn metadata; the name extra is declared
\* by no variable
Catalog ==
    << Variable("mode", "--mode", "store", None),
       Variable("target_id", "--target-id", "store", None),
       Variable("force", "--force", "store", None) >>

\* the names a drawn namespace may hold and the values they may have
ArgNames == {"mode", "target_id", "force", "extra"}

ArgValues(name) ==
    CASE name = "mode" -> {"delete", "create"}
      [] name = "target_id" -> {"7"}
      [] name = "force" -> {"yes"}
      [] name = "extra" -> {"e"}

Namespaces ==
    UNION {{f \in [D -> {"delete", "create", "7", "yes", "e"}] :
                \A k \in D : f[k] \in ArgValues(k)} : D \in SUBSET ArgNames}

\* the kinds of constraint, in the order validate_constraints reads them
Kinds ==
    <<"required_together", "required_one_of", "required_if", "forbidden_if",
      "mutually_exclusive">>

\* the groups of names drawn for required_together, required_one_of and
\* mutually_exclusive; a group names a variable at most once
Groups == { <<"mode", "target_id">>, <<"target_id", "force", "extra">>, <<"extra">> }

\* the entries drawn for required_if and forbidden_if
Conditionals ==
    { <<"mode", "delete", <<"target_id">> >>,
      <<"mode", "create", <<"target_id", "force">> >>,
      <<"extra", "e", <<"force">> >> }

Entries(kind) == IF kind \in {"required_if", "forbidden_if"} THEN Conditionals ELSE Groups

\* the lists of at most MaxEntries entries of S
Lists(S) == UNION {[1..n -> S] : n \in 0..MaxEntries}

\* one entry of every kind
Background ==
    [required_together |-> << <<"force", "target_id">> >>,
     required_one_of |-> << <<"mode", "extra">> >>,
     required_if |-> << <<"force", "yes", <<"mode">> >> >>,
     forbidden_if |-> << <<"mode", "create", <<"extra">> >> >>,
     mutually_exclusive |-> << <<"force", "extra">> >>]

\* the drawn constraints: one kind holds a drawn list, the other kinds hold
\* nothing or their background entry
ConstraintSets ==
    UNION {{[base EXCEPT ![Kinds[i]] = list] :
                base \in {NoConstraints, Background}, list \in Lists(Entries(Kinds[i]))} :
           i \in 1..Len(Kinds)}

InitValidate ==
    /\ Idle
    /\ inventory = TRUE
    /\ vc_pc = "input"
    /\ vc_metadata \in {[constraints |-> c, variables |-> Catalog] : c \in ConstraintSets}
    /\ vc_args \in Namespaces
    /\ vc_errors = <<>>
    /\ NoSessions

\* errors = validate_constraints(metadata, args)
CallValidateConstraints ==
    /\ vc_pc = "input"
    /\ vc_errors' = validate_constraints(vc_metadata, vc_args)
    /\ vc_pc' = "done"
    /\ UNCHANGED <<mainVars, vc_metadata, vc_args, acVars>>

NextValidate == CallValidateConstraints

SpecValidate == InitValidate /\ [][NextValidate]_vars

----------------------------------------------------------------------------
(* Parsing sessions that share one parser with a flag of a custom action *)

\* the values the flag is given
Values == {"x", "y"}

\* the default= the flag is added with: a list (None becomes []), or
\* argparse.SUPPRESS, as obsah_argument_parser passes
Defaults ==
    {[suppress |-> FALSE, list |-> l] : l \in UNION {[1..n -> Values] : n \in 0..MaxDefault}}
    \cup {[suppress |-> TRUE, list |-> <<>>]}

\* the list the namespace attribute refers to
Items == IF ac_items.ref = "default" THEN ac_default ELSE ac_items.list

InitSessions ==
    /\ Idle
    /\ inventory = TRUE
    /\ NoCall
    /\ ac_pc = "ready"
    /\ ac_kind \in {"append_unique", "remove"}
    /\ ac_original \in Defaults
    /\ ac_default = ac_original.list
    /\ ac_items = [ref |-> "none", list |-> <<>>]
    /\ ac_given = <<>>
    /\ ac_sessions = 0

\* parse_args starts: a new namespace whose attribute is the action's
\* default object itself, unless the default is SUPPRESS
StartSession ==
    /\ ac_pc = "ready"
    /\ ac_sessions < MaxSessions
    /\ ac_pc' = "parsing"
    /\ ac_sessions' = ac_sessions + 1
    /\ ac_items' = [ref |-> IF ac_original.suppress THEN "none" ELSE "default", list |-> <<>>]
    /\ ac_given' = <<>>
    /\ UNCHANGED <<mainVars, vcVars, ac_kind, ac_original, ac_default>>

\* __call__ without "items = list(items)": the list the attribute refers to
\* is changed in place
CallInPlace(values) ==
    LET namespace == IF ac_items.ref = "none" THEN Empty ELSE [items |-> Items]
        after == IF ac_kind = "append_unique"
                 THEN AppendUniqueAction(namespace, "items", values)
                 ELSE RemoveAction(namespace, "items", values)
    IN  /\ ac_pc = "parsing"
        /\ Len(ac_given) < MaxValues
        /\ IF ac_items.ref = "default"
           THEN ac_default' = after["items"] /\ ac_items' = ac_items
           ELSE ac_default' = ac_default /\ ac_items' = [ref |-> "own", list |-> after["items"]]
        /\ ac_given' = Append(ac_given, values)
        /\ UNCHANGED <<mainVars, vcVars, ac_pc, ac_kind, ac_original, ac_sessions>>

\* the flag occurs on the command line: __call__(parser, namespace, values)
\* reads the attribute, copies the list, changes the copy and sets the
\* attribute to the copy
Call(values) ==
    LET namespace == IF ac_items.ref = "none" THEN Empty ELSE [items |-> Items]
        after == IF ac_kind = "append_unique"
                 THEN AppendUniqueAction(namespace, "items", values)
                 ELSE RemoveAction(namespace, "items", values)
    IN  /\ ac_pc = "parsing"
        /\ Len(ac_given) < MaxValues
        /\ ac_items' = [ref |-> "own", list |-> after["items"]]
        /\ ac_given' = Append(ac_given, values)
        /\ UNCHANGED <<mainVars, vcVars, ac_pc, ac_kind, ac_original, ac_default, ac_sessions>>

\* parse_args returns the namespace
EndSession ==
    /\ ac_pc = "parsing"
    /\ ac_pc' = "ready"
    /\ UNCHANGED <<mainVars, vcVars, ac_kind, ac_original, ac_default, ac_items, ac_given,
                   ac_sessions>>

NextSessions ==
    \/ StartSession
    \/ \E values \in Values : Call(values)
    \/ EndSession

SpecSessions == InitSessions /\ [][NextSessions]_vars

----------------------------------------------------------------------------
(* Properties of the reset cascade and of persistence *)

\* the positions of main() after reset_args has returned
AfterReset == {"validate", "open", "dump", "run", "engine"}

\* the positions of a persisting invocation after its record was written
AfterWrite == {"run", "engine"}

\* a persisting invocation whose reset_args has returned
Evaluated(p) == pc[p] \in AfterReset /\ cfg[p].persist_params

\* a persisting invocation that has written its record
Written(p) == pc[p] \in AfterWrite /\ cfg[p].persist_params

\* ParsedArguments of invocation p: the namespace parse_args returned
Parsed(p) == ParseArgs(PlaybookNamed(task[p]), cfg[p], persisted[p], cli[p])

\* the record the file holds
Record == SafeLoad(file).params

ResetRulesOf(p) == PlaybookNamed(task[p]).reset

\* rule i of invocation p has a trigger whose persisted value differs from
\* the parsed one
TriggerChanged(p, i) ==
    LET reset_key == ResetRulesOf(p)[i][1]
    IN  /\ Has(persisted[p], reset_key)
        /\ Has(Parsed(p), reset_key)
        /\ persisted[p][reset_key] # Parsed(p)[reset_key]

\* C1: under a reset rule whose trigger changed, a dependent that the
\* command line supplies explicitly (and does not reset) keeps the supplied
\* value after reset evaluation and is written back to the persisted record.
C1_ExplicitResupplyKept ==
    \A p \in Procs :
        Evaluated(p) =>
            \A i \in 1..Len(ResetRulesOf(p)) :
                \A j \in 1..Len(ResetRulesOf(p)[i][2]) :
                    LET d == ResetRulesOf(p)[i][2][j]
                    IN  (TriggerChanged(p, i) /\ Has(cli[p].given, d) /\ ~In(d, cli[p].resets))
                        => /\ Has(args[p], d)
                           /\ args[p][d] = cli[p].given[d]
                           /\ Written(p) => (Has(Record, d) /\ Record[d] = cli[p].given[d])

\* C2: for every reset rule whose trigger changed, every dependent whose
\* parsed value equals its persisted value is absent from the namespace from
\* validation on and from the record that is written; a dependent of no rule
\* whose trigger changed, and not named by a --reset flag, keeps its parsed
\* value.
C2_CascadeRemovesUnchangedDependents ==
    \A p \in Procs :
        Evaluated(p) =>
            \A i \in 1..Len(ResetRulesOf(p)) :
                \A j \in 1..Len(ResetRulesOf(p)[i][2]) :
                    LET d == ResetRulesOf(p)[i][2][j]
                        listed == {n \in 1..Len(ResetRulesOf(p)) : In(d, ResetRulesOf(p)[n][2])}
                    IN  /\ ( /\ TriggerChanged(p, i)
                             /\ Has(persisted[p], d)
                             /\ Has(Parsed(p), d)
                             /\ Parsed(p)[d] = persisted[p][d] )
                           => /\ ~Has(args[p], d)
                              /\ Written(p) => ~Has(Record, d)
                        /\ ( /\ \A n \in listed : ~TriggerChanged(p, n)
                             /\ ~In(d, cli[p].resets)
                             /\ Has(Parsed(p), d) )
                           => (Has(args[p], d) /\ args[p][d] = Parsed(p)[d])

\* the trigger changed, the dependent was omitted, and the record was written
C2_Witness ==
    /\ Written(1)
    /\ task[1] = "deploy"
    /\ Has(persisted[1], "trigger") /\ persisted[1]["trigger"] = "A"
    /\ Has(persisted[1], "dependent") /\ persisted[1]["dependent"] = "x"
    /\ Has(cli[1].given, "trigger") /\ cli[1].given["trigger"] = "B"
    /\ ~Has(cli[1].given, "dependent")
    /\ ~Has(args[1], "dependent")
    /\ ~Has(Record, "dependent")

VariableNamed(playbook, name) ==
    playbook.variables[CHOOSE i \in 1..Len(playbook.variables) : playbook.variables[i].name = name]

\* C3: with persistence, the entry of every variable named by a --reset flag
\* is absent from the namespace once reset evaluation is over.
C3_ResetFlagRemovesEntry ==
    \A p \in Procs :
        Evaluated(p) =>
            \A i \in 1..Len(cli[p].resets) :
                ~Has(args[p], ArgumentDest(VariableNamed(PlaybookNamed(task[p]), cli[p].resets[i])))

\* the fields the persisted record must never hold
DenylistedFields ==
    {"playbook", "action", "target", "verbose", "ask_pass", "private_key_file",
     "extra_vars", "obsah_reset"}

\* no argument given on the command line of invocation p is bound to k
Omitted(p, k) ==
    \A n \in DOMAIN cli[p].given :
        ArgumentDest(VariableNamed(PlaybookNamed(task[p]), n)) # k

\* C4: the record never holds a denylisted field; the record a run has
\* written holds exactly that run's entries that are neither denylisted nor
\* positional; and every entry of the record is the value the next
\* persisting run parses for it when no argument bound to it is given, a
\* value it keeps through reset evaluation unless a reset removes the entry.
C4_RoundTrip ==
    /\ (DOMAIN Record) \cap DenylistedFields = {}
    /\ \A p \in Procs :
          /\ Written(p) =>
                /\ \A k \in DOMAIN Record : Has(args[p], k) /\ args[p][k] = Record[k]
                /\ \A k \in (DOMAIN args[p]) \ (DenylistedFields \cup PositionalNames) :
                      Has(Record, k)
          /\ (pc[p] = "reset" /\ cfg[p].persist_params) =>
                \A k \in DOMAIN Record :
                    Omitted(p, k) => (Has(args[p], k) /\ args[p][k] = Record[k])
          /\ Evaluated(p) =>
                \A k \in DOMAIN persisted[p] :
                    (Omitted(p, k) /\ Has(args[p], k)) => args[p][k] = persisted[p][k]

\* a run has written trigger and features, and the next run, of a playbook
\* that declares neither, has them as its values
C4_Witness ==
    /\ last_writer = 1
    /\ pc[1] = "reset" /\ cfg[1].persist_params /\ task[1] = "setup"
    /\ Has(Record, "trigger") /\ Has(Record, "features")
    /\ args[1]["trigger"] = Record["trigger"]
    /\ args[1]["features"] = <<"f1">>
    /\ Has(args[1], "verbose") /\ Has(args[1], "extra_vars") /\ Has(args[1], "tag")

\* the errors validate_constraints returns for invocation p
Errors(p) == validate_constraints(PlaybookNamed(task[p]), args[p])

\* C5: a step that leaves validation with a non-empty error list exits with
\* status 1 and the messages joined by newlines, leaves the file as it is and
\* hands nothing to the engine; the file changes, and the engine is handed
\* its arguments, only in an invocation whose validation returns no error.
C5_ValidationFatal ==
    [][\A p \in Procs :
          /\ (pc[p] = "validate" /\ pc'[p] # "validate" /\ Errors(p) # <<>>) =>
                /\ pc'[p] = "exited"
                /\ exit_code'[p] = 1
                /\ stderr'[p] = Join(Errors(p), "\n") \o "\n"
                /\ file' = file
                /\ ansible'[p] = <<>>
          /\ (file' # file) =>
                \E q \in Procs : pc[q] \in {"open", "dump"} /\ Errors(q) = <<>>
          /\ (ansible'[p] # <<>>) => (pc[p] \in AfterReset /\ Errors(p) = <<>>)
      ]_vars

\* an invocation of deploy has failed validation while the file holds a record
C5_Witness ==
    /\ pc[1] = "exited"
    /\ exit_code[1] = 1
    /\ stderr[1] = "['--dependent'] are required because --trigger is A\n"
    /\ file # NoFile

\* C6: once two overlapping invocations have both written, the file holds
\* exactly the record of the one that wrote last.
C6_LastWriterWins ==
    \A p \in Procs :
        ((\A q \in Procs : Written(q)) /\ last_writer = p) => file = SafeDump(pending[p])

----------------------------------------------------------------------------
(* Properties of validate_constraints *)

\* how often the message m occurs in the returned list
Count(errors, m) == Cardinality({i \in DOMAIN errors : errors[i] = m})

\* the positions of names whose variable is present in the arguments
Present(names) == {j \in DOMAIN names : Has(vc_args, names[j])}

\* the flag spellings of names, printed as a list
Flags(names) == ListRepr(Parameters(vc_metadata, names))

\* the trigger of a conditional entry is present with the entry's value
Triggered(e) == Has(vc_args, e[1]) /\ vc_args[e[1]] = e[2]

TogetherViolated(g) == Present(g) # {} /\ Present(g) # DOMAIN g
TogetherMessage(g) == Flags(g) \o " are required together"

\* C7: every required_together group contributes exactly one error naming
\* the whole group when some but not all of its members are present, and
\* none when all or no members are present.
C7_RequiredTogether ==
    vc_pc = "done" =>
        LET list == vc_metadata.constraints.required_together
        IN  \A i \in DOMAIN list :
                Count(vc_errors, TogetherMessage(list[i]))
                  = Cardinality({k \in DOMAIN list :
                          TogetherViolated(list[k]) /\ TogetherMessage(list[k]) = TogetherMessage(list[i])})

C7_Witness ==
    /\ vc_pc = "done"
    /\ vc_metadata.constraints.required_together
          = << <<"target_id", "force", "extra">>, <<"mode", "target_id">> >>
    /\ DOMAIN vc_args = {"mode", "target_id"}
    /\ vc_errors = << "['--target-id', '--force', 'extra'] are required together" >>

RequiredIfViolated(e) == Triggered(e) /\ Present(e[3]) # DOMAIN e[3]
RequiredIfMessage(e) ==
    Flags(e[3]) \o " are required because " \o variable_to_parameter(vc_metadata, e[1])
    \o " is " \o e[2]

\* C8: every required_if entry contributes exactly one error if and only if
\* its trigger is present with the entry's value and one of its names is
\* absent; for mode = delete without target-id the text is
\* "['--target-id'] are required because --mode is delete".
C8_RequiredIf ==
    vc_pc = "done" =>
        LET list == vc_metadata.constraints.required_if
        IN  /\ \A i \in DOMAIN list :
                  Count(vc_errors, RequiredIfMessage(list[i]))
                    = Cardinality({k \in DOMAIN list :
                          RequiredIfViolated(list[k]) /\ RequiredIfMessage(list[k]) = RequiredIfMessage(list[i])})
            /\ \A i \in DOMAIN list :
                  (/\ list[i] = <<"mode", "delete", <<"target_id">> >>
                   /\ Has(vc_args, "mode") /\ vc_args["mode"] = "delete"
                   /\ ~Has(vc_args, "target_id"))
                  => Count(vc_errors, "['--target-id'] are required because --mode is delete") > 0

C8_Witness ==
    /\ vc_pc = "done"
    /\ vc_metadata.constraints.required_if
          = << <<"mode", "delete", <<"target_id">> >>, <<"mode", "create", <<"target_id", "force">> >> >>
    /\ vc_args = [mode |-> "delete"]
    /\ vc_errors = << "['--target-id'] are required because --mode is delete" >>

ForbiddenIfViolated(e) == Triggered(e) /\ Present(e[3]) # {}
ForbiddenIfMessage(e) ==
    Flags(e[3]) \o " are forbidden because " \o variable_to_parameter(vc_metadata, e[1])
    \o " is " \o e[2]

\* C9: every forbidden_if entry contributes exactly one error if and only if
\* its trigger is present with the entry's value and one of its names is
\* present.
C9_ForbiddenIf ==
    vc_pc = "done" =>
        LET list == vc_metadata.constraints.forbidden_if
        IN  \A i \in DOMAIN list :
                Count(vc_errors, ForbiddenIfMessage(list[i]))
                  = Cardinality({k \in DOMAIN list :
                          ForbiddenIfViolated(list[k]) /\ ForbiddenIfMessage(list[k]) = ForbiddenIfMessage(list[i])})

C9_Witness ==
    /\ vc_pc = "done"
    /\ vc_metadata.constraints.forbidden_if
          = << <<"mode", "create", <<"target_id", "force">> >>, <<"mode", "delete", <<"target_id">> >> >>
    /\ vc_args = [mode |-> "create", force |-> "yes"]
    /\ vc_errors = << "['--target-id', '--force'] are forbidden because --mode is create" >>

ExclusiveViolated(g) == Cardinality(Present(g)) >= 2
ExclusiveMessage(g) == ListRepr(g) \o " are mutually exclusive"

\* C10: every mutually_exclusive group contributes exactly one error when
\* two or more of its members are present, however many are, and none when
\* at most one is.
C10_MutuallyExclusive ==
    vc_pc = "done" =>
        LET list == vc_metadata.constraints.mutually_exclusive
        IN  \A i \in DOMAIN list :
                Count(vc_errors, ExclusiveMessage(list[i]))
                  = Cardinality({k \in DOMAIN list :
                          ExclusiveViolated(list[k]) /\ ExclusiveMessage(list[k]) = ExclusiveMessage(list[i])})

C10_Witness ==
    /\ vc_pc = "done"
    /\ vc_metadata.constraints.mutually_exclusive
          = << <<"target_id", "force", "extra">>, <<"mode", "target_id">> >>
    /\ DOMAIN vc_args = {"target_id", "force", "extra"}
    /\ vc_errors = << "['target_id', 'force', 'extra'] are mutually exclusive" >>

OneOfViolated(g) == Present(g) = {}
OneOfMessage(g) == "one of " \o Flags(g) \o " is required"

\* C11: every required_one_of group contributes exactly one error if and
\* only if none of its members is present; with no variable present at all
\* the returned list is one error per required_one_of group and nothing
\* else.
C11_RequiredOneOf ==
    vc_pc = "done" =>
        LET list == vc_metadata.constraints.required_one_of
        IN  /\ \A i \in DOMAIN list :
                  Count(vc_errors, OneOfMessage(list[i]))
                    = Cardinality({k \in DOMAIN list :
                          OneOfViolated(list[k]) /\ OneOfMessage(list[k]) = OneOfMessage(list[i])})
            /\ (DOMAIN vc_args = {}) =>
                  vc_errors = [i \in DOMAIN list |-> OneOfMessage(list[i])]

C11_Witness ==
    /\ vc_pc = "done"
    /\ vc_metadata.constraints.required_one_of
          = << <<"mode", "target_id">>, <<"target_id", "force", "extra">> >>
    /\ vc_metadata.constraints.required_if # <<>>
    /\ DOMAIN vc_args = {}
    /\ vc_errors = << "one of ['--mode', '--target-id'] is required",
                      "one of ['--target-id', '--force', 'extra'] is required" >>

\* the messages of the violated entries of one kind, in declaration order
TogetherErrors ==
    LET violated == SelectSeq(vc_metadata.constraints.required_together, TogetherViolated)
    IN  [i \in DOMAIN violated |-> TogetherMessage(violated[i])]
OneOfErrors ==
    LET violated == SelectSeq(vc_metadata.constraints.required_one_of, OneOfViolated)
    IN  [i \in DOMAIN violated |-> OneOfMessage(violated[i])]
RequiredIfErrors ==
    LET violated == SelectSeq(vc_metadata.constraints.required_if, RequiredIfViolated)
    IN  [i \in DOMAIN violated |-> RequiredIfMessage(violated[i])]
ForbiddenIfErrors ==
    LET violated == SelectSeq(vc_metadata.constraints.forbidden_if, ForbiddenIfViolated)
    IN  [i \in DOMAIN violated |-> ForbiddenIfMessage(violated[i])]
ExclusiveErrors ==
    LET violated == SelectSeq(vc_metadata.constraints.mutually_exclusive, ExclusiveViolated)
    IN  [i \in DOMAIN violated |-> ExclusiveMessage(violated[i])]

\* C12: the call returns one message per violated entry of every kind, in
\* the order required_together, required_one_of, required_if, forbidden_if,
\* mutually_exclusive and in declaration order within a kind, and leaves the
\* arguments as they were.
C12_NoShortCircuit ==
    [][(vc_pc = "input" /\ vc_pc' = "done") =>
          /\ vc_errors' = TogetherErrors \o OneOfErrors \o RequiredIfErrors
                            \o ForbiddenIfErrors \o ExclusiveErrors
          /\ vc_args' = vc_args
      ]_vars

\* entries of three kinds are violated at once
C12_Witness ==
    /\ vc_pc = "done"
    /\ vc_metadata.constraints.required_together
          = << <<"target_id", "force", "extra">>, <<"mode", "target_id">> >>
    /\ vc_args = [force |-> "yes", extra |-> "e"]
    /\ vc_errors = << "['--target-id', '--force', 'extra'] are required together",
                      "['--mode'] are required because --force is yes",
                      "['force', 'extra'] are mutually exclusive" >>

\* the messages the constraints give when every declared variable is spelled
\* as its flag
FlagMessages ==
    LET c == vc_metadata.constraints
    IN  {TogetherMessage(c.required_together[i]) : i \in DOMAIN c.required_together}
        \cup {OneOfMessage(c.required_one_of[i]) : i \in DOMAIN c.required_one_of}
        \cup {RequiredIfMessage(c.required_if[i]) : i \in DOMAIN c.required_if}
        \cup {ForbiddenIfMessage(c.forbidden_if[i]) : i \in DOMAIN c.forbidden_if}
        \cup {Flags(c.mutually_exclusive[i]) \o " are mutually exclusive" :
                  i \in DOMAIN c.mutually_exclusive}

\* C13: every returned message names the declared variables by their flags.
C13_FlagSpellings ==
    vc_pc = "done" => \A i \in DOMAIN vc_errors : vc_errors[i] \in FlagMessages

----------------------------------------------------------------------------
(* Properties of main's exits, of the engine's arguments and of the record *)

InventoryMessage == "Could not find your inventory at " \o InventoryPath \o "\n"

\* C14: an invocation whose validation fails exits with status 1; an
\* invocation of a target-taking playbook started while the inventory does
\* not exist exits with status 1 and the message about the inventory; an
\* invocation that reaches the engine exits with a status of the engine and
\* no message.
C14_ExitCodes ==
    [][\A p \in Procs :
          /\ (pc[p] = "validate" /\ pc'[p] = "exited" /\ Errors(p) # <<>>) =>
                exit_code'[p] = 1
          /\ (pc[p] = "validate" /\ pc'[p] = "exited" /\ Errors(p) = <<>>) =>
                (exit_code'[p] = 1 /\ stderr'[p] = InventoryMessage)
          /\ (pc[p] = "idle" /\ pc'[p] # "idle" /\ ~inventory) =>
                \/ pc'[p] = "reset" /\ ~PlaybookNamed(task'[p]).takes_target_parameter
                \/ pc'[p] = "exited" /\ exit_code'[p] = 1 /\ stderr'[p] = InventoryMessage
          /\ (pc[p] = "engine" /\ pc'[p] = "exited") =>
                (exit_code'[p] \in EngineCodes /\ stderr'[p] = "")
      ]_vars

\* the argument list of invocation p with a final -e whose keys are the
\* declared variables set in the arguments, and no final -e without any
ClaimedAnsibleArgs(p) ==
    LET namespace == args[p]
        limit == IF Has(namespace, "target")
                 THEN <<"--limit", Join(namespace["target"], ":")>> ELSE <<>>
        verbose == IF namespace["verbose"] > 0
                   THEN <<"-" \o Repeat("v", namespace["verbose"])>> ELSE <<>>
        auth == (IF Has(namespace, "ask_pass") /\ namespace["ask_pass"] THEN <<"-k">> ELSE <<>>)
                \o (IF Has(namespace, "private_key_file") /\ namespace["private_key_file"] # None
                    THEN <<"--private-key", namespace["private_key_file"]>> ELSE <<>>)
        extra == IF Has(namespace, "extra_vars")
                 THEN Extend([i \in DOMAIN namespace["extra_vars"] |->
                                 <<"-e", namespace["extra_vars"][i]>>])
                 ELSE <<>>
        declared == Restrict(namespace, ObsahArguments \cap DOMAIN namespace)
        blob == IF DOMAIN declared = {} THEN <<>> ELSE <<"-e", JsonDumps(declared)>>
    IN  <<"ansible-playbook", PlaybookPath(task[p]), "--inventory", InventoryPath>>
        \o limit \o verbose \o auth \o extra \o blob

\* C18: the engine is handed the playbook path, --inventory and the
\* inventory, then --limit with the targets, the verbosity flag, one -e per
\* extra-var and one -e with the JSON object of the declared variables that
\* are set, which is left out when none is set.
C18_AnsibleArgs ==
    \A p \in Procs : pc[p] = "engine" => ansible[p] = ClaimedAnsibleArgs(p)

\* C19: reset_args returns, without raising, for every record, namespace and
\* list of reset rules an invocation can reach it with.
C19_ResetNeverRaises ==
    \A p \in Procs :
        (pc[p] = "reset" /\ cfg[p].persist_params /\ ~SafeLoad(file).error) =>
            ~ResetArgs(SafeLoad(file).params, PlaybookNamed(task[p]), args[p]).raised

\* a rule of invocation p whose trigger changed lists k among its dependents
CascadeNames(p, k) ==
    \E i \in DOMAIN ResetRulesOf(p) : TriggerChanged(p, i) /\ In(k, ResetRulesOf(p)[i][2])

\* a --reset flag of invocation p names k or the variable bound to k
ResetNames(p, k) ==
    \E i \in DOMAIN cli[p].resets :
        \/ cli[p].resets[i] = k
        \/ ArgumentDest(VariableNamed(PlaybookNamed(task[p]), cli[p].resets[i])) = k

\* C20: every entry of the record a persisting run started from, unless an
\* argument of the run is bound to it, a reset rule whose trigger changed
\* lists it or a --reset flag names it, is in the namespace when the
\* constraints are validated and, with its value, in the record the run
\* writes, whether or not the run's playbook declares it.
C20_CarryOver ==
    \A p \in Procs :
        Evaluated(p) =>
            \A k \in DOMAIN persisted[p] :
                (Omitted(p, k) /\ ~CascadeNames(p, k) /\ ~ResetNames(p, k)) =>
                    /\ Has(args[p], k) /\ args[p][k] = persisted[p][k]
                    /\ Written(p) => (Has(Record, k) /\ Record[k] = persisted[p][k])

\* setup, which declares neither, has written back trigger and features
C20_Witness ==
    /\ Written(1) /\ task[1] = "setup"
    /\ Has(persisted[1], "trigger") /\ Has(persisted[1], "features")
    /\ Record = persisted[1]

----------------------------------------------------------------------------
(* Properties of the custom argparse actions *)

\* the elements of a list
Range(items) == {items[i] : i \in DOMAIN items}

\* the first position of x in items
First(items, x) == CHOOSE i \in DOMAIN items : items[i] = x /\ \A j \in 1..(i - 1) : items[j] # x

\* items without its first x, or items itself when x is not in it
WithoutFirst(items, x) ==
    IF x \notin Range(items) THEN items
    ELSE SubSeq(items, 1, First(items, x) - 1) \o SubSeq(items, First(items, x) + 1, Len(items))

RECURSIVE Applied(_, _, _)
\* the list a session has after the values given, from the list start
Applied(kind, start, given) ==
    IF given = <<>> THEN start
    ELSE LET x == Head(given)
             next == IF kind = "remove" THEN WithoutFirst(start, x)
                     ELSE IF x \in Range(start) THEN start
                     ELSE start \o <<x>>
         IN  Applied(kind, next, Tail(given))

\* C15: in every session of a sequence of sessions that share the parser,
\* the default list keeps the content it was added with, and the session's
\* list is the one its own arguments give from that default.
C15_CopyOnFirstWrite ==
    ac_pc # "off" =>
        /\ ac_default = ac_original.list
        /\ ac_items.ref # "none" => Items = Applied(ac_kind, ac_original.list, ac_given)

\* the second session of a parser whose default is [x] was given y
C15_Witness ==
    /\ ac_sessions = 2 /\ ac_pc = "parsing"
    /\ ac_kind = "append_unique"
    /\ ac_original = [suppress |-> FALSE, list |-> <<"x">>]
    /\ ac_given = <<"y">>
    /\ Items = <<"x", "y">>
    /\ ac_default = <<"x">>

\* the part of the session's list behind the list the session started from
Added == SubSeq(Items, Len(ac_original.list) + 1, Len(Items))

\* C16: after any sequence of values the list of an append_unique flag is
\* the list the session started from followed by the values not in it, each
\* once, in the order of their first occurrence; applying a value that is in
\* the list leaves the list as it is.
C16_AppendUnique ==
    (ac_kind = "append_unique" /\ ac_items.ref # "none") =>
        /\ Len(Items) >= Len(ac_original.list)
        /\ SubSeq(Items, 1, Len(ac_original.list)) = ac_original.list
        /\ Range(Added) = Range(ac_given) \ Range(ac_original.list)
        /\ \A i, j \in DOMAIN Added :
              i < j => (Added[i] # Added[j]
                        /\ First(ac_given, Added[i]) < First(ac_given, Added[j]))
        /\ \A x \in Range(Items) :
              AppendUniqueAction([items |-> Items], "items", x)["items"] = Items

\* x, x, y from an empty list
C16_Witness ==
    /\ ac_kind = "append_unique"
    /\ ac_original = [suppress |-> FALSE, list |-> <<>>]
    /\ ac_given = <<"x", "x", "y">>
    /\ Items = <<"x", "y">>

\* C17: a call of a remove flag with a value deletes the first occurrence of
\* the value from the list and keeps every other element in its place; with
\* a value that is not in the list it leaves the list as it is.
C17_Remove ==
    [][(ac_kind = "remove" /\ ac_items.ref # "none" /\ ac_given' # ac_given /\ ac_given' # <<>>) =>
          LET values == ac_given'[Len(ac_given')]
              items == Items
          IN  /\ ac_items'.ref = "own"
              /\ IF \A i \in DOMAIN items : items[i] # values
                 THEN ac_items'.list = items
                 ELSE \E i \in DOMAIN items :
                         /\ items[i] = values
                         /\ \A j \in 1..(i - 1) : items[j] # values
                         /\ ac_items'.list = [k \in 1..(Len(items) - 1) |->
                                                 IF k < i THEN items[k] ELSE items[k + 1]]
      ]_vars

\* x was removed from [x, y, x], then a value that was not in the list
C17_Witness ==
    /\ ac_kind = "remove"
    /\ ac_original = [suppress |-> FALSE, list |-> <<"x", "y", "x">>]
    /\ ac_given = <<"x", "y", "y">>
    /\ Items = <<"x">>

====
